---- MODULE Spec2Model ----
(***************************************************************************)
(* Model of the DeepSeek / OpenAI-compatible completion handlers of        *)
(* Roo-Code.  The repository holds several variants of createMessage:      *)
(*                                                                         *)
(*   "sse"   the callback variant that parses a server-sent-event stream   *)
(*           (src/src/__tests__/providers/deepseek.test.ts, lines 75-211)  *)
(*   "doc"   the generator variant that buffers the whole body and parses  *)
(*           it as one JSON document (src/unnamed/part_000)                *)
(*   "axios" the non-streaming axios variant                               *)
(*           (src/src/api/providers/deepseek.ts)                           *)
(*   "o3"    OpenAiHandler.createMessage on its o1/o3/o4 streaming path,   *)
(*           i.e. handleO3FamilyMessage + handleStreamResponse             *)
(*           (src/unnamed/part_001)                                        *)
(*   "openai" OpenAiHandler.createMessage on its non-streaming path        *)
(*   "complete", "openaiComplete"  completePrompt of deepseek.ts and of    *)
(*           OpenAiHandler                                                 *)
(*                                                                         *)
(* One behaviour of the model is the construction of one handler followed  *)
(* by one createMessage or completePrompt call; a second handler of the    *)
(* same class may be constructed in the same process at any moment.        *)
(* Response text is a sequence of text pieces (tokens): a newline, the     *)
(* 'data: ' prefix, the '[DONE]' sentinel, a JSON document, or text that   *)
(* is not JSON.  The handlers only ever cut the text at newlines and at    *)
(* the 6-character prefix, so a chunk boundary inside a piece behaves as   *)
(* one at its end.                                                         *)
(***************************************************************************)
EXTENDS Integers, Sequences, FiniteSets, TLC

VARIABLES
    handler,    \* which entry point of which handler variant this call runs
    apiKey,     \* options.deepSeekApiKey
    openAiApiKey,  \* options.openAiApiKey
    caBundlePath,  \* options.deepSeekCaBundlePath
    apiModelId, \* options.apiModelId
    request,    \* the caller's request: system text, prompt, history
    status,     \* HTTP status code of the response
    body,       \* the response body the endpoint sends (never changes)
    deepSeekBaseUrl,   \* options.deepSeekBaseUrl
    requestTimeoutMs,  \* the request timeout the caller configured
    openAiHeaders,     \* options.openAiHeaders.Authorization
    includeMaxTokens,  \* options.includeMaxTokens
    modelMaxTokens,    \* options.modelMaxTokens
    sinkWorks,  \* the output channel's appendLine returns (TRUE) or throws
    listBaseUrl,  \* the baseUrl argument of getOpenAiModels: <<>> when it is
                \* undefined, else <<the string as a sequence of pieces>>
    env,        \* process.env: NODE_EXTRA_CA_CERTS and REQUESTS_CA_BUNDLE
    peer,       \* another handler of the same class in this process:
                \* "none", "pending" (not constructed yet), "built", "threw"
    agent,      \* "unbuilt"; after the constructor "none" (default trust),
                \* "custom" (an https.Agent with the bundle as ca), "env"
                \* (NODE_EXTRA_CA_CERTS names the bundle) or "threw"
    pos,        \* number of pieces of body already handed to the handler
    net,        \* transport: "idle", "sent", "open", "ended", "failed", "aborted"
    issued,     \* number of HTTP requests written to the endpoint
    sent,       \* the messages array of the request body
    wire,       \* the model id, headers, timeout, protocol and trust anchor
                \* of the request, <<>> before it
    buffer,     \* the handler's accumulation buffer
    events,     \* the events delivered to the caller, in order
    outcome,    \* "pending", "done" (resolved / generator returned), "error"
    errMsg,     \* message of the error the call ended with, as text pieces
    returned,   \* the string completePrompt returned
    abandoned,  \* the caller has stopped consuming the event sequence
    sentinel,   \* a 'data: [DONE]' line has been processed
    lineFrags,  \* content fragments produced by line-wise parsing
    endParse,   \* the end-of-stream JSON.parse was attempted
    diag,       \* the Authorization texts written to the diagnostics sink,
                \* each as a sequence of characters
    diagAlt,    \* the same texts had the handler been configured with
                \* another API key
    fetch,      \* the GET request getOpenAiModels issued, <<>> before it
    models      \* <<the list getOpenAiModels returned>>, <<>> before it

\* what the call is given and never changes
inputs == <<handler, apiKey, openAiApiKey, caBundlePath, apiModelId, request,
            status, body, deepSeekBaseUrl, requestTimeoutMs, openAiHeaders,
            includeMaxTokens, modelMaxTokens, sinkWorks,
            listBaseUrl>>

\* what the handlers of one process share
proc == <<env, peer>>

\* what has been written to the diagnostics sink
sink == <<diag, diagAlt>>

\* the request and the result of getOpenAiModels
listing == <<fetch, models>>

vars == <<inputs, listing, proc, sink, agent, pos, net, issued, sent, wire, buffer, events,
          outcome, errMsg, returned, abandoned, sentinel, lineFrags, endParse>>

-----------------------------------------------------------------------------
(* Bounds of the model *)

MaxLines == 2      \* newline-terminated lines in an event-stream body
MaxChunks == 2     \* SDK chunks in an o3 stream
MaxHistory == 3    \* turns in a generated conversation history

-----------------------------------------------------------------------------
(* Text pieces and decoded JSON documents *)

Absent == "undefined"
Undef == 0 - 1

NL == "\n"
DataPrefix == "data: "
DoneSentinel == "[DONE]"
Garbage == "not json"

\* a decoded document with none of the probed fields
EmptyDoc ==
    [delta |-> Absent, message |-> Absent, text |-> Absent, result |-> Absent,
     output |-> Absent, error |-> Absent, usage |-> <<>>, metrics |-> <<>>]

UsageOf(p, c) ==
    [prompt_tokens |-> p, completion_tokens |-> c,
     input_tokens |-> Undef, output_tokens |-> Undef,
     cache_miss_tokens |-> Undef, cache_creation_input_tokens |-> Undef,
     cached_tokens |-> Undef, cache_read_input_tokens |-> Undef]

DocTokens ==
    {"{delta:a}", "{delta:b}", "{delta:''}", "{}", "{text:t}",
     "{message:m,usage:5/2}", "{message:''}", "{error:bad key}",
     "{message:m,error:bad key}", "{usage:7/3}", "{delta:a,usage:5/2}",
     "{message:'',text:t}", "{message:m,usage:in5/out2}"}

\* what JSON.parse yields for each document text
Decode(tok) ==
    CASE tok = "{delta:a}" -> [EmptyDoc EXCEPT !.delta = "a"]
      [] tok = "{delta:b}" -> [EmptyDoc EXCEPT !.delta = "b"]
      [] tok = "{delta:''}" -> [EmptyDoc EXCEPT !.delta = ""]
      [] tok = "{text:t}" -> [EmptyDoc EXCEPT !.text = "t"]
      [] tok = "{message:m,usage:5/2}" ->
            [EmptyDoc EXCEPT !.message = "m", !.usage = <<UsageOf(5, 2)>>]
      [] tok = "{message:''}" -> [EmptyDoc EXCEPT !.message = ""]
      [] tok = "{message:'',text:t}" ->
            [EmptyDoc EXCEPT !.message = "", !.text = "t"]
      [] tok = "{message:m,usage:in5/out2}" ->
            [EmptyDoc EXCEPT !.message = "m",
                             !.usage = <<[UsageOf(Undef, Undef) EXCEPT
                                            !.input_tokens = 5,
                                            !.output_tokens = 2]>>]
      [] tok = "{error:bad key}" -> [EmptyDoc EXCEPT !.error = "bad key"]
      [] tok = "{message:m,error:bad key}" ->
            [EmptyDoc EXCEPT !.message = "m", !.error = "bad key"]
      [] tok = "{usage:7/3}" -> [EmptyDoc EXCEPT !.usage = <<UsageOf(7, 3)>>]
      [] tok = "{delta:a,usage:5/2}" ->
            [EmptyDoc EXCEPT !.delta = "a", !.usage = <<UsageOf(5, 2)>>]
      [] OTHER -> EmptyDoc

\* JSON.parse(text): whitespace around the value is skipped; anything but
\* exactly one JSON value throws
NonSpace(s) == SelectSeq(s, LAMBDA t : t # NL)

JsonParse(s) ==
    LET t == NonSpace(s)
    IN  IF Len(t) = 1 /\ t[1] \in DocTokens
        THEN [ok |-> TRUE, doc |-> Decode(t[1])]
        ELSE [ok |-> FALSE, doc |-> EmptyDoc]

\* JavaScript truthiness of an optional string
Truthy(x) == x # Absent /\ x # ""

\* a ?? b
Nullish(a, b) == IF a = Absent THEN b ELSE a
NullishNum(a, b) == IF a = Undef THEN b ELSE a


-----------------------------------------------------------------------------
(* Events and promise settlement *)

ContentEvent(c) == [type |-> "content", content |-> c]
TextEvent(c) == [type |-> "text", text |-> c]

\* what a failing appendLine throws
SinkError == <<"appendLine failed">>

\* a promise settles once: resolve / reject on a settled promise do nothing
Settle(o) == IF outcome = "pending" THEN o ELSE outcome
SettleMsg(o, m) == IF outcome = "pending" /\ o = "error" THEN m ELSE errMsg

-----------------------------------------------------------------------------
(* Request assembly *)

Msg(r, c) == [role |-> r, content |-> c]

\* request.messages.map(m => ({role: m.role, content: m.content}))
MapMessages(ms) == [i \in 1..Len(ms) |-> Msg(ms[i].role, ms[i].content)]

-----------------------------------------------------------------------------
(* Entry points *)

\* the https-module DeepSeekHandler variants (callback and generator)
HttpsEntries == {"sse", "doc"}

\* DeepSeekHandler of deepseek.ts: createMessage and completePrompt
AxiosEntries == {"axios", "complete"}

\* OpenAiHandler: createMessage on its o3 path and on its non-streaming path,
\* and completePrompt
OpenAiEntries == {"o3", "openai", "openaiComplete"}

-----------------------------------------------------------------------------
(* getModel *)

\* the ids of the model table deepSeekModels, and its default id
deepSeekModels == {"deepseek-chat", "deepseek-reasoner"}
deepSeekDefaultModelId == "deepseek-chat"

\* DEFAULT_MODEL of deepseek.ts
DEFAULT_MODEL == "o3-2025-04-16"

\* property names every JavaScript object inherits from Object.prototype
InheritedKeys == {"constructor"}

\* the values an info can be: a table entry, openAiModelInfoSaneDefaults,
\* a member inherited from Object.prototype, or undefined
TableEntry(id) == [kind |-> "entry", of |-> id]
SaneDefaults == [kind |-> "defaults", of |-> ""]
InheritedMember(id) == [kind |-> "inherited", of |-> id]
NoInfo == [kind |-> "undefined", of |-> ""]

\* deepSeekModels[id]: a property read of an object literal
TableLookup(id) ==
    IF id \in deepSeekModels THEN TableEntry(id)
    ELSE IF id \in InheritedKeys THEN InheritedMember(id)
    ELSE NoInfo

\* DeepSeekHandler.getModel().id: apiModelId ?? deepSeekDefaultModelId in the
\* https-module variants, apiModelId ?? this.modelId in deepseek.ts, where
\* this.modelId is apiModelId ?? DEFAULT_MODEL
getModelId(h, modelId) ==
    IF h \in HttpsEntries THEN Nullish(modelId, deepSeekDefaultModelId)
    ELSE Nullish(modelId, DEFAULT_MODEL)

\* DeepSeekHandler.getModel().info
getModelInfo(h, modelId) ==
    LET id == getModelId(h, modelId)
    IN  IF h \in HttpsEntries
        THEN \* deepSeekModels[id] || deepSeekModels[deepSeekDefaultModelId]
             IF TableLookup(id) # NoInfo THEN TableLookup(id)
             ELSE TableLookup(deepSeekDefaultModelId)
        ELSE \* deepSeekModels[id] ?? openAiModelInfoSaneDefaults
             IF TableLookup(id) # NoInfo THEN TableLookup(id) ELSE SaneDefaults

\* options.openAiModelId ?? "" of a call that does not take the o3 path
OpenAiModelId == ""

\* OpenAiHandler.getModel().id
OpenAiGetModelId(baseUrl, deepSeekKey, caPath, modelId) ==
    IF Truthy(baseUrl) \/ Truthy(deepSeekKey) \/ Truthy(caPath)
    THEN Nullish(modelId, "deepseek-reasoner")
    ELSE OpenAiModelId

getModel(h, modelId) ==
    [id |-> getModelId(h, modelId), info |-> getModelInfo(h, modelId)]

-----------------------------------------------------------------------------
(* Request headers *)

JsonType == "application/json"

\* the headers object of the DeepSeekHandler variants
BearerHeaders(token) ==
    [ContentType |-> JsonType, Authorization |-> "Bearer " \o token]

\* DEFAULT_HEADERS.Authorization
DefaultAuthorization == ""

\* OpenAiHandler.getHeaders(): DEFAULT_HEADERS, then options.openAiHeaders,
\* then Authorization from options.openAiApiKey when that is truthy
getHeaders(openAiKey) ==
    [ContentType |-> JsonType,
     Authorization |-> IF Truthy(openAiKey) THEN "Bearer " \o openAiKey
                       ELSE Nullish(openAiHeaders, DefaultAuthorization)]

\* the constructor's apiKey: openAiApiKey ?? "not-provided", replaced by
\* deepSeekApiKey ?? apiKey when a DeepSeek option is set
ClientApiKey(openAiKey, deepSeekKey) ==
    Nullish(deepSeekKey, Nullish(openAiKey, "not-provided"))

\* apiKey handed to the SDK: "" when getHeaders() has an Authorization key
sdkApiKey(openAiKey, deepSeekKey) ==
    IF getHeaders(openAiKey).Authorization # Absent THEN ""
    ELSE ClientApiKey(openAiKey, deepSeekKey)

\* the headers of an SDK request: the SDK's own 'Bearer <apiKey>' is
\* overridden by the client's defaultHeaders
OpenAiWireHeaders(openAiKey, deepSeekKey) ==
    LET real == getHeaders(openAiKey)
    IN  [ContentType |-> real.ContentType,
         Authorization |-> IF real.Authorization # Absent
                           THEN real.Authorization
                           ELSE "Bearer " \o sdkApiKey(openAiKey, deepSeekKey)]

\* what is written to the wire besides the messages
Wire(model, headers, transport, params) ==
    <<[model |-> model, headers |-> headers, timeout |-> transport.timeout,
       protocol |-> transport.protocol, trust |-> transport.trust,
       stream |-> params.stream,
       max_completion_tokens |-> params.max_completion_tokens]>>

-----------------------------------------------------------------------------
(* Diagnostics: what the handlers log about the Authorization header *)

Min(a, b) == IF a < b THEN a ELSE b
Max(a, b) == IF a > b THEN a ELSE b

\* the characters of the configured secrets and header values
Chars(s) ==
    CASE s = "sk-key" -> <<"s", "k", "-", "k", "e", "y">>
      [] s = "sk-open" -> <<"s", "k", "-", "o", "p", "e", "n">>
      [] s = "Bearer caller-token" ->
             <<"B", "e", "a", "r", "e", "r", " ", "c", "a", "l", "l", "e",
               "r", "-", "t", "o", "k", "e", "n">>
      [] OTHER -> <<>>

\* the characters of the template `Bearer ${key}`
BearerChars(key) == <<"B", "e", "a", "r", "e", "r", " ">> \o key

\* another API key for the same configuration: no key stays no key
OtherKey(key) == IF key = <<>> THEN <<>> ELSE <<"x">> \o key \o <<"2">>

\* String.prototype.slice(0, n) and slice(-n)
SliceStart(cs, n) == SubSeq(cs, 1, Min(n, Len(cs)))
SliceEnd(cs, n) == SubSeq(cs, Max(1, Len(cs) - n + 1), Len(cs))

\* deepseek.ts: `${v.slice(0, 7)}...` for the authorization entry
DeepSeekAuthLog(key) == SliceStart(BearerChars(key), 7) \o <<".", ".", ".">>

\* the documented variant: JSON.stringify(headers, null, 2)
DocAuthLog(key) == BearerChars(key)

\* OpenAiHandler: "***" + Authorization.slice(-6) when Authorization is
\* truthy, the value itself otherwise
RedactTail(cs) ==
    IF cs = <<>> THEN <<>> ELSE <<"*", "*", "*">> \o SliceEnd(cs, 6)

\* getHeaders().Authorization, character by character
getHeadersChars(key) ==
    IF key # <<>> THEN BearerChars(key)
    ELSE Chars(Nullish(openAiHeaders, DefaultAuthorization))

\* the redacted copy of getHeaders() the constructor and createMessage log
OpenAiAuthLog(key) == RedactTail(getHeadersChars(key))

\* the redacted copy of options.openAiHeaders that completePrompt and
\* handleO3FamilyMessage log
CallerAuthLog == RedactTail(Chars(Nullish(openAiHeaders, "")))

\* appendLine of a text that depends on the key
Logged(text, textAlt) ==
    /\ diag' = Append(diag, text)
    /\ diagAlt' = Append(diagAlt, textAlt)

-----------------------------------------------------------------------------
(* Constructors *)

\* DEFAULT_CA_BUNDLE_PATH of deepseek.ts
DEFAULT_CA_BUNDLE_PATH == "C:/Users/45168789/Documents/combined_certificates.crt"

\* the constructor of the https-module variants: the bundle is read inside
\* try/catch and becomes the agent's ca; a failed read is only logged
HttpsConstruct ==
    /\ handler \in HttpsEntries /\ agent = "unbuilt"
    /\ IF Truthy(caBundlePath)
       THEN \E readable \in BOOLEAN :
                agent' = IF readable THEN "custom" ELSE "none"
       ELSE agent' = "none"
    /\ env' = IF handler = "doc" /\ Truthy(caBundlePath)
              THEN [env EXCEPT !.REQUESTS_CA_BUNDLE = caBundlePath]
              ELSE env
    /\ UNCHANGED <<inputs, listing, peer, sink, pos, net, issued, sent, wire, buffer, events,
                   outcome, errMsg, returned, abandoned, sentinel, lineFrags,
                   endParse>>

\* this.caBundlePath of deepseek.ts
AxiosCaBundlePath(path) == Nullish(path, DEFAULT_CA_BUNDLE_PATH)

\* the constructor of deepseek.ts: throws when the bundle file does not
\* exist, else sets NODE_EXTRA_CA_CERTS
AxiosConstruct ==
    /\ handler \in AxiosEntries /\ agent = "unbuilt"
    /\ IF Truthy(AxiosCaBundlePath(caBundlePath))
       THEN \E exists \in BOOLEAN :
                IF exists
                THEN /\ agent' = "env"
                     /\ env' = [env EXCEPT !.NODE_EXTRA_CA_CERTS =
                                               AxiosCaBundlePath(caBundlePath)]
                     /\ UNCHANGED errMsg
                ELSE /\ agent' = "threw"
                     /\ errMsg' = <<"CA bundle not found at ",
                                    AxiosCaBundlePath(caBundlePath)>>
                     /\ UNCHANGED env
       ELSE agent' = "none" /\ UNCHANGED <<errMsg, env>>
    /\ UNCHANGED <<inputs, listing, peer, sink, pos, net, issued, sent, wire, buffer, events,
                   outcome, returned, abandoned, sentinel, lineFrags,
                   endParse>>

\* the constructor of OpenAiHandler: the bundle becomes the agent's ca when
\* the file exists; a missing file is only logged
OpenAiConstruct ==
    /\ handler \in OpenAiEntries /\ agent = "unbuilt"
    /\ IF Truthy(caBundlePath)
       THEN \E exists \in BOOLEAN :
                agent' = IF exists THEN "custom" ELSE "none"
       ELSE agent' = "none"
    /\ Logged(OpenAiAuthLog(Chars(openAiApiKey)),
              OpenAiAuthLog(OtherKey(Chars(openAiApiKey))))
    /\ UNCHANGED <<inputs, listing, proc, pos, net, issued, sent, wire, buffer, events,
                   outcome, errMsg, returned, abandoned, sentinel, lineFrags,
                   endParse>>

Built == agent \in {"none", "custom", "env"}

\* the bundle path another handler of the same class is constructed with
PeerCaPath == "peer.pem"

\* the constructor of a second handler of the same class, run in the same
\* process: its writes to process.env are seen by every handler
PeerConstruct ==
    /\ peer = "pending"
    /\ \E present \in BOOLEAN :
          IF handler \in AxiosEntries
          THEN IF present
               THEN /\ peer' = "built"
                    /\ env' = [env EXCEPT !.NODE_EXTRA_CA_CERTS = PeerCaPath]
               ELSE peer' = "threw" /\ UNCHANGED env
          ELSE /\ peer' = "built"
               /\ env' = IF handler = "doc"
                         THEN [env EXCEPT !.REQUESTS_CA_BUNDLE = PeerCaPath]
                         ELSE env
    /\ UNCHANGED <<inputs, listing, sink, agent, pos, net, issued, sent, wire, buffer, events,
                   outcome, errMsg, returned, abandoned, sentinel, lineFrags,
                   endParse>>

-----------------------------------------------------------------------------
(* The endpoint URL and the transport of the request *)

\* DEFAULT_URL of deepseek.ts
DEFAULT_URL == "http://hk120164337.hc.cloud.hk.hsbc:12214/v1/chat/completions"

\* new URL(url).protocol
UrlProtocol(url) ==
    IF url \in {DEFAULT_URL, "http://gateway.local/v1"} THEN "http:" ELSE "https:"

\* the endpoint of a call: options.deepSeekBaseUrl ?? the handler's default
Endpoint(h, baseUrl) ==
    IF h \in HttpsEntries THEN Nullish(baseUrl, "https://api.deepseek.com")
    ELSE IF h \in AxiosEntries THEN Nullish(baseUrl, DEFAULT_URL)
    ELSE Nullish(baseUrl, "https://api.openai.com/v1")

\* DEFAULT_TIMEOUT of deepseek.ts
DEFAULT_TIMEOUT == 120000

\* the ca of this.agent: the bundle when the constructor built an agent
AgentCa == IF agent = "custom" THEN caBundlePath ELSE Absent

\* https.request(endpoint, {..., agent: this.agent}): always the https
\* module, always this.agent, no timeout
SseTransport ==
    [timeout |-> Undef, protocol |-> "https:", trust |-> AgentCa]

\* httpModule = url.protocol === 'https:' ? https : http; the agent is set
\* only for https; no timeout
DocTransport ==
    LET protocol == UrlProtocol(Endpoint(handler, deepSeekBaseUrl))
    IN  [timeout |-> Undef,
         protocol |-> protocol,
         trust |-> IF protocol = "https:" THEN AgentCa ELSE Absent]

\* axios.post(this.baseUrl, body, { headers, timeout }): axios picks the
\* transport from the URL; the trust anchors are the process-wide
\* NODE_EXTRA_CA_CERTS
AxiosTransport ==
    [timeout |-> DEFAULT_TIMEOUT,
     protocol |-> UrlProtocol(Endpoint(handler, deepSeekBaseUrl)),
     trust |-> env.NODE_EXTRA_CA_CERTS]

\* the body of the DeepSeekHandler variants is { model, messages }
PlainBody == [stream |-> FALSE, max_completion_tokens |-> Undef]

\* modelInfo.maxTokens of the info getModel() returns
ModelDefaultMaxTokens == 8192

\* OpenAiHandler.addMaxTokensIfNeeded: the value of max_completion_tokens
addMaxTokensIfNeeded(include, maxTokens, infoMaxTokens) ==
    IF include
    THEN (IF maxTokens = Undef \/ maxTokens = 0 THEN infoMaxTokens
          ELSE maxTokens)
    ELSE Undef

\* the request options of OpenAiHandler besides model and messages
OpenAiBody(streaming) ==
    [stream |-> streaming,
     max_completion_tokens |->
         addMaxTokensIfNeeded(includeMaxTokens, modelMaxTokens,
                              ModelDefaultMaxTokens)]

\* the OpenAI client: the SDK picks the transport from baseURL; the agent is
\* given as httpAgent and httpsAgent; the code sets no timeout
OpenAiTransport ==
    [timeout |-> Undef,
     protocol |-> UrlProtocol(Endpoint(handler, deepSeekBaseUrl)),
     trust |-> AgentCa]

-----------------------------------------------------------------------------
(* "sse": the event-stream variant of createMessage *)

HasNewline(buf) == \E i \in 1..Len(buf) : buf[i] = NL

\* buffer.indexOf('\n')
IndexOfNewline(buf) == CHOOSE i \in 1..Len(buf) :
    buf[i] = NL /\ \A j \in 1..(i - 1) : buf[j] # NL

\* the body of the try block: parse, and report delta content when truthy
DeltaProgress(text) ==
    LET p == JsonParse(text)
    IN  IF p.ok /\ Truthy(p.doc.delta)
        THEN <<ContentEvent(p.doc.delta)>>
        ELSE <<>>

\* the while loop without its try/catch: a payload that fails to parse ends
\* the listener's turn, and the lines after it wait in the buffer
RECURSIVE ScanLinesNoCatch(_, _)
ScanLinesNoCatch(buf, out) ==
    IF ~HasNewline(buf)
    THEN [buffer |-> buf, out |-> out, resolved |-> FALSE]
    ELSE LET boundary == IndexOfNewline(buf)
             line == SubSeq(buf, 1, boundary - 1)
             rest == SubSeq(buf, boundary + 1, Len(buf))
         IN  IF Len(line) > 0 /\ line[1] = DataPrefix
             THEN LET jsonStr == Tail(line)
                  IN  IF jsonStr = <<DoneSentinel>>
                      THEN [buffer |-> rest, out |-> out, resolved |-> TRUE]
                      ELSE IF ~JsonParse(jsonStr).ok
                      THEN [buffer |-> rest, out |-> out, resolved |-> FALSE]
                      ELSE ScanLinesNoCatch(rest, out \o DeltaProgress(jsonStr))
             ELSE ScanLinesNoCatch(rest, out)

\* the while loop without its startsWith('data: ') test: a line without the
\* prefix is parsed whole
RECURSIVE ScanLinesAnyLine(_, _)
ScanLinesAnyLine(buf, out) ==
    IF ~HasNewline(buf)
    THEN [buffer |-> buf, out |-> out, resolved |-> FALSE]
    ELSE LET boundary == IndexOfNewline(buf)
             line == SubSeq(buf, 1, boundary - 1)
             rest == SubSeq(buf, boundary + 1, Len(buf))
             jsonStr == IF Len(line) > 0 /\ line[1] = DataPrefix
                        THEN Tail(line) ELSE line
         IN  IF jsonStr = <<DoneSentinel>>
             THEN [buffer |-> rest, out |-> out, resolved |-> TRUE]
             ELSE ScanLinesAnyLine(rest, out \o DeltaProgress(jsonStr))

\* the while loop of res.on('data'), entered with buffer = buf and the
\* events out reported so far; resolved says the loop hit [DONE] and returned
RECURSIVE ScanLines(_, _)
ScanLines(buf, out) ==
    IF ~HasNewline(buf)
    THEN [buffer |-> buf, out |-> out, resolved |-> FALSE]
    ELSE LET boundary == IndexOfNewline(buf)
             line == SubSeq(buf, 1, boundary - 1)
             rest == SubSeq(buf, boundary + 1, Len(buf))
         IN  IF Len(line) > 0 /\ line[1] = DataPrefix
             THEN LET jsonStr == Tail(line)
                  IN  IF jsonStr = <<DoneSentinel>>
                      THEN [buffer |-> rest, out |-> out, resolved |-> TRUE]
                      ELSE ScanLines(rest, out \o DeltaProgress(jsonStr))
             ELSE ScanLines(rest, out)

\* res.on('data', chunk)
SseOnData(buf, chunk) == ScanLines(buf \o chunk, <<>>)

\* res.on('end'): one JSON.parse of what is left in the buffer
SseOnEnd(buf) ==
    IF Len(buf) > 0
    THEN [attempted |-> TRUE, out |-> DeltaProgress(buf)]
    ELSE [attempted |-> FALSE, out |-> <<>>]

\* createMessage up to req.end(): token check, message mapping, request
SseSend ==
    /\ handler = "sse" /\ Built /\ net = "idle" /\ outcome = "pending"
    /\ IF ~Truthy(apiKey)
       THEN /\ outcome' = "error"
            /\ errMsg' = <<"DeepSeek API token is required">>
            /\ UNCHANGED <<net, issued, sent, wire>>
       ELSE IF request.messages = <<>>
       THEN \* request.messages.map on undefined
            /\ outcome' = "error"
            /\ errMsg' = <<"TypeError">>
            /\ UNCHANGED <<net, issued, sent, wire>>
       ELSE IF UrlProtocol(Endpoint(handler, deepSeekBaseUrl)) # "https:"
       THEN \* https.request throws inside the promise executor
            /\ outcome' = "error"
            /\ errMsg' = <<"ERR_INVALID_PROTOCOL">>
            /\ UNCHANGED <<net, issued, sent, wire>>
       ELSE /\ sent' = MapMessages(request.messages[1])
            /\ wire' = Wire(getModelId(handler, apiModelId), BearerHeaders(apiKey),
                            SseTransport, PlainBody)
            /\ issued' = issued + 1
            /\ net' = "sent"
            /\ UNCHANGED <<outcome, errMsg>>
    /\ UNCHANGED <<inputs, listing, proc, sink, agent, returned, abandoned, pos, buffer,
                   events, sentinel, lineFrags, endParse>>

\* the response callback of https.request: the data and end listeners are set
SseResponse ==
    /\ handler = "sse" /\ net = "sent"
    /\ net' = "open"
    /\ UNCHANGED <<inputs, listing, proc, sink, agent, wire, returned, abandoned, pos, issued, sent,
                   buffer, events, outcome, errMsg, sentinel, lineFrags,
                   endParse>>

\* a 'data' event carrying the next n pieces of the body
SseData ==
    /\ handler = "sse" /\ net = "open" /\ pos < Len(body)
    /\ \E n \in 1..(Len(body) - pos) :
        LET r == SseOnData(buffer, SubSeq(body, pos + 1, pos + n))
        IN  /\ pos' = pos + n
            /\ buffer' = r.buffer
            /\ events' = events \o r.out
            /\ lineFrags' = lineFrags + Len(r.out)
            /\ sentinel' = (sentinel \/ r.resolved)
            /\ outcome' = IF r.resolved THEN Settle("done") ELSE outcome
    /\ UNCHANGED <<inputs, listing, proc, sink, agent, wire, returned, abandoned, net, issued, sent,
                   errMsg, endParse>>

\* the 'end' event
SseEnd ==
    /\ handler = "sse" /\ net = "open" /\ pos = Len(body)
    /\ LET r == SseOnEnd(buffer)
       IN  /\ events' = events \o r.out
           /\ endParse' = r.attempted
    /\ outcome' = Settle("done")
    /\ net' = "ended"
    /\ UNCHANGED <<inputs, listing, proc, sink, agent, wire, returned, abandoned, pos, issued, sent,
                   buffer, errMsg, sentinel, lineFrags>>

\* req.on('error'): connection refused, reset, DNS failure
SseReqError ==
    /\ handler = "sse" /\ net \in {"sent", "open"}
    /\ outcome' = Settle("error")
    /\ errMsg' = SettleMsg("error", <<"socket error">>)
    /\ net' = "failed"
    /\ UNCHANGED <<inputs, listing, proc, sink, agent, wire, returned, abandoned, pos, issued, sent,
                   buffer, events, sentinel, lineFrags, endParse>>

\* the peer closes the connection before the body is complete: the response
\* emits 'aborted' and 'close' but neither 'end' nor, with no 'error'
\* listener on it, 'error'; the request emits nothing.  The handler listens
\* for none of these.
SseResAborted ==
    /\ handler = "sse" /\ net = "open"
    /\ net' = "aborted"
    /\ UNCHANGED <<inputs, listing, proc, sink, agent, wire, returned, abandoned, pos, issued, sent,
                   buffer, events, outcome, errMsg, sentinel, lineFrags,
                   endParse>>

-----------------------------------------------------------------------------
(* "doc": the buffer-everything variant of createMessage (part_000) *)

\* (request.messages || []).map(...), then the system prompt is put in front
\* when request.systemPrompt is truthy
DocMessages(req) ==
    LET ms == IF req.messages = <<>> THEN <<>> ELSE MapMessages(req.messages[1])
    IN  IF Truthy(req.systemPrompt)
        THEN <<Msg("system", req.systemPrompt)>> \o ms
        ELSE ms

ParsePrefix == "Failed to parse API response: "

\* the try/catch after the body is buffered: the events yielded, how the
\* generator ends and the message of the error it throws
DocParse(buf) ==
    LET p == JsonParse(buf)
    IN  IF ~p.ok
        THEN [out |-> <<>>, outcome |-> "error",
              msg |-> <<ParsePrefix, "SyntaxError">>]
        ELSE IF Truthy(p.doc.message)
        THEN [out |-> <<ContentEvent(p.doc.message)>>, outcome |-> "done",
              msg |-> <<>>]
        ELSE IF Truthy(p.doc.error)
        THEN [out |-> <<>>, outcome |-> "error",
              msg |-> <<ParsePrefix, "API Error: ", p.doc.error>>]
        ELSE [out |-> <<>>, outcome |-> "error",
              msg |-> <<ParsePrefix, "No valid content found in API response">>]

\* createMessage without its token check: the request is built and sent
\* whatever the token is
DocSendUnchecked ==
    /\ handler = "doc" /\ Built /\ net = "idle" /\ outcome = "pending"
    /\ sent' = DocMessages(request)
    /\ wire' = Wire(getModelId(handler, apiModelId), BearerHeaders(apiKey),
                    DocTransport, PlainBody)
    /\ issued' = issued + 1
    /\ net' = "sent"
    /\ UNCHANGED <<inputs, listing, proc, sink, agent, returned, abandoned, pos, buffer,
                   events, outcome, errMsg, sentinel, lineFrags, endParse>>

\* createMessage up to req.end()
DocSend ==
    /\ handler = "doc" /\ Built /\ net = "idle" /\ outcome = "pending"
    /\ IF ~Truthy(apiKey)
       THEN /\ outcome' = "error"
            /\ errMsg' = <<"DeepSeek API token is required">>
            /\ UNCHANGED <<net, issued, sent, wire>>
       ELSE /\ sent' = DocMessages(request)
            /\ wire' = Wire(getModelId(handler, apiModelId), BearerHeaders(apiKey),
                            DocTransport, PlainBody)
            /\ issued' = issued + 1
            /\ net' = "sent"
            /\ UNCHANGED <<outcome, errMsg>>
    /\ UNCHANGED <<inputs, listing, proc, sink, agent, returned, abandoned, pos, buffer,
                   events, sentinel, lineFrags, endParse>>

\* the request's promise resolves with the response (any status code)
DocResponse ==
    /\ handler = "doc" /\ net = "sent"
    /\ net' = "open"
    /\ UNCHANGED <<inputs, listing, proc, sink, agent, wire, returned, abandoned, pos, issued, sent,
                   buffer, events, outcome, errMsg, sentinel, lineFrags,
                   endParse>>

\* one turn of  for await (const chunk of response) buffer += chunk
DocChunk ==
    /\ handler = "doc" /\ net = "open" /\ pos < Len(body)
    /\ \E n \in 1..(Len(body) - pos) :
        /\ pos' = pos + n
        /\ buffer' = buffer \o SubSeq(body, pos + 1, pos + n)
    /\ UNCHANGED <<inputs, listing, proc, sink, agent, wire, returned, abandoned, net, issued, sent,
                   events, outcome, errMsg, sentinel, lineFrags, endParse>>

\* the body is complete: parse it, yield the content or throw
DocEnd ==
    /\ handler = "doc" /\ net = "open" /\ pos = Len(body)
    /\ IF ~sinkWorks
       THEN \* the first appendLine, outside the try block, throws
            /\ outcome' = "error"
            /\ errMsg' = SinkError
            /\ UNCHANGED <<events, sink>>
       ELSE LET r == DocParse(buffer)
            IN  /\ events' = events \o r.out
                /\ outcome' = r.outcome
                /\ errMsg' = r.msg
                /\ Logged(DocAuthLog(Chars(apiKey)),
                          DocAuthLog(OtherKey(Chars(apiKey))))
    /\ net' = "ended"
    /\ endParse' = TRUE
    /\ UNCHANGED <<inputs, listing, proc, agent, wire, returned, abandoned, pos, issued, sent,
                   buffer, sentinel, lineFrags>>

\* the request fails (the awaited promise rejects), or the response is cut
\* short (the for await loop throws): the generator throws
DocTransportError ==
    /\ handler = "doc" /\ net \in {"sent", "open"}
    /\ outcome' = "error"
    /\ errMsg' = <<"socket error">>
    /\ net' = "failed"
    /\ UNCHANGED <<inputs, listing, proc, sink, agent, wire, returned, abandoned, pos, issued, sent,
                   buffer, events, sentinel, lineFrags, endParse>>

-----------------------------------------------------------------------------
(* "axios": the non-streaming variant of createMessage (deepseek.ts) *)

\* convertToR1Format: runs of consecutive same-role messages become one
\* message, their contents joined by a newline
RECURSIVE MergeRuns(_, _)
MergeRuns(acc, ms) ==
    IF ms = <<>> THEN acc
    ELSE IF acc # <<>> /\ acc[Len(acc)].role = ms[1].role
    THEN MergeRuns([acc EXCEPT ![Len(acc)].content = @ \o "\n" \o ms[1].content],
                   Tail(ms))
    ELSE MergeRuns(Append(acc, Msg(ms[1].role, ms[1].content)), Tail(ms))

convertToR1Format(ms) == MergeRuns(<<>>, ms)

\* the argument createMessage gives convertToR1Format: the system prompt as
\* a leading user message, then the history
R1InputAsSystem(systemPrompt, ms) == <<Msg("system", systemPrompt)>> \o ms
R1Input(systemPrompt, ms) == <<Msg("user", systemPrompt)>> \o ms

\* response.data: axios decodes a JSON body and leaves any other body a string
AxiosData(text) == JsonParse(text).doc

\* respBody?.choices?.[0]?.message?.content ?? ...text ?? result ?? output ?? ""
AxiosContent(d) ==
    Nullish(d.message, Nullish(d.text, Nullish(d.result, Nullish(d.output, ""))))

\* respBody?.usage ?? respBody?.metrics
AxiosUsage(d) == IF d.usage # <<>> THEN d.usage ELSE d.metrics

\* processUsageMetrics of deepseek.ts
processUsageMetrics(usage) ==
    [type |-> "usage",
     inputTokens |-> NullishNum(usage.prompt_tokens, NullishNum(usage.input_tokens, 0)),
     outputTokens |-> NullishNum(usage.completion_tokens, NullishNum(usage.output_tokens, 0)),
     cacheWriteTokens |-> NullishNum(usage.cache_miss_tokens, usage.cache_creation_input_tokens),
     cacheReadTokens |-> NullishNum(usage.cached_tokens, usage.cache_read_input_tokens)]

\* the chunks createMessage yields for a 2xx response
AxiosYield(d) ==
    <<TextEvent(AxiosContent(d))>> \o
    (IF AxiosUsage(d) # <<>> THEN <<processUsageMetrics(AxiosUsage(d)[1])>> ELSE <<>>)

\* createMessage up to axios.post
AxiosSend ==
    /\ handler = "axios" /\ Built /\ net = "idle" /\ outcome = "pending"
    /\ IF ~sinkWorks
       THEN \* appendLine throws: when logging the missing key, else when
            \* logging the request before axios.post
            /\ outcome' = "error"
            /\ errMsg' = SinkError
            /\ UNCHANGED <<net, issued, sent, wire, sink>>
       ELSE IF ~Truthy(apiKey)
       THEN /\ outcome' = "error"
            /\ errMsg' = <<"deepSeekApiKey is missing from ApiHandlerOptions">>
            /\ UNCHANGED <<net, issued, sent, wire, sink>>
       ELSE /\ sent' = convertToR1Format(R1Input(request.systemPrompt,
                                                 request.messages[1]))
            /\ wire' = Wire(getModelId(handler, apiModelId), BearerHeaders(apiKey),
                            AxiosTransport, PlainBody)
            /\ issued' = issued + 1
            /\ net' = "sent"
            /\ Logged(DeepSeekAuthLog(Chars(apiKey)),
                      DeepSeekAuthLog(OtherKey(Chars(apiKey))))
            /\ UNCHANGED <<outcome, errMsg>>
    /\ UNCHANGED <<inputs, listing, proc, agent, returned, abandoned, pos, buffer,
                   events, sentinel, lineFrags, endParse>>

\* what createMessage does with a complete response: axios.post resolves
\* for a 2xx status and rejects for any other (axios's default
\* validateStatus); the catch block rethrows
AxiosRun(st, b) ==
    IF st >= 200 /\ st < 300
    THEN [outcome |-> "done", out |-> AxiosYield(AxiosData(b)), msg |-> <<>>]
    ELSE [outcome |-> "error", out |-> <<>>,
          msg |-> <<"Request failed with status code">>]

\* axios.post settles with a complete response
AxiosResponse ==
    /\ handler = "axios" /\ net = "sent"
    /\ LET r == AxiosRun(status, body)
       IN  /\ events' = events \o r.out
           /\ outcome' = r.outcome
           /\ errMsg' = r.msg
    /\ pos' = Len(body)
    /\ net' = "ended"
    /\ UNCHANGED <<inputs, listing, proc, sink, agent, wire, returned, abandoned, issued, sent,
                   buffer, sentinel, lineFrags, endParse>>

\* axios.post rejects without a response: refusal, DNS failure, timeout
AxiosTransportError ==
    /\ handler = "axios" /\ net = "sent"
    /\ outcome' = "error"
    /\ errMsg' = <<"network error">>
    /\ net' = "failed"
    /\ UNCHANGED <<inputs, listing, proc, sink, agent, wire, returned, abandoned, pos, issued, sent,
                   buffer, events, sentinel, lineFrags, endParse>>

-----------------------------------------------------------------------------
(* "o3": OpenAiHandler.createMessage for an o1/o3/o4 model id, streaming *)

\* convertToOpenAiMessages, for turns whose content is plain text
convertToOpenAiMessages(ms) == MapMessages(ms)

\* the messages of handleO3FamilyMessage's request
O3Messages(systemPrompt, ms) ==
    <<Msg("developer", "Formatting re-enabled\n" \o systemPrompt)>>
    \o convertToOpenAiMessages(ms)

\* what one pass of handleStreamResponse's loop yields for an SDK chunk
handleStreamChunk(chunk) ==
    (IF Truthy(chunk.delta) THEN <<TextEvent(chunk.delta)>> ELSE <<>>)
    \o (IF chunk.usage # <<>>
        THEN <<[type |-> "usage",
                inputTokens |-> IF chunk.usage[1].prompt_tokens = Undef
                                THEN 0 ELSE chunk.usage[1].prompt_tokens,
                outputTokens |-> IF chunk.usage[1].completion_tokens = Undef
                                 THEN 0 ELSE chunk.usage[1].completion_tokens]>>
        ELSE <<>>)

\* options.openAiModelId of a call that takes the o3 path (it includes "o3")
O3ModelId == "o3-mini"

\* the client is constructed without maxRetries, so the SDK's default holds
SdkMaxRetries == 2

\* the statuses the SDK sends the request again for
SdkRetryable(st) == st \in {408, 409, 429} \/ st >= 500

\* the SDK has used up its retries
SdkExhausted == issued > SdkMaxRetries

\* client.chat.completions.create of every OpenAiHandler entry point: after
\* a connection error or a response with a retryable status the SDK writes
\* the same request again, up to SdkMaxRetries times
SdkRetry ==
    /\ handler \in OpenAiEntries /\ net = "sent"
    /\ ~SdkExhausted
    /\ issued' = issued + 1
    /\ UNCHANGED <<inputs, listing, proc, sink, agent, wire, returned, abandoned, pos, net,
                   sent, buffer, events, outcome, errMsg, sentinel, lineFrags,
                   endParse>>

\* createMessage -> handleO3FamilyMessage up to client.chat.completions.create
O3Send ==
    /\ handler = "o3" /\ Built /\ net = "idle" /\ outcome = "pending"
    /\ sent' = O3Messages(request.systemPrompt, request.messages[1])
    /\ wire' = Wire(O3ModelId, OpenAiWireHeaders(openAiApiKey, apiKey),
                 OpenAiTransport, OpenAiBody(TRUE))
    /\ issued' = issued + 1
    /\ net' = "sent"
    /\ diag' = diag \o <<OpenAiAuthLog(Chars(openAiApiKey)), CallerAuthLog>>
    /\ diagAlt' = diagAlt \o <<OpenAiAuthLog(OtherKey(Chars(openAiApiKey))),
                                CallerAuthLog>>
    /\ UNCHANGED <<inputs, listing, proc, agent, returned, abandoned, pos, buffer,
                   events, outcome, errMsg, sentinel, lineFrags, endParse>>

\* create() settles: a stream for a 2xx status, an API error otherwise
O3Response ==
    /\ handler = "o3" /\ net = "sent"
    /\ SdkRetryable(status) => SdkExhausted
    /\ IF status >= 200 /\ status < 300
       THEN /\ net' = "open"
            /\ UNCHANGED <<outcome, errMsg>>
       ELSE /\ net' = "failed"
            /\ outcome' = "error"
            /\ errMsg' = <<"API error">>
    /\ UNCHANGED <<inputs, listing, proc, sink, agent, wire, returned, abandoned, pos, issued, sent,
                   buffer, events, sentinel, lineFrags, endParse>>

\* one turn of  for await (const chunk of stream)
O3Chunk ==
    /\ handler = "o3" /\ net = "open" /\ pos < Len(body)
    /\ events' = events \o handleStreamChunk(Decode(body[pos + 1]))
    /\ pos' = pos + 1
    /\ UNCHANGED <<inputs, listing, proc, sink, agent, wire, returned, abandoned, net, issued, sent,
                   buffer, outcome, errMsg, sentinel, lineFrags, endParse>>

\* the stream is exhausted: the generator returns
O3End ==
    /\ handler = "o3" /\ net = "open" /\ pos = Len(body)
    /\ outcome' = "done"
    /\ net' = "ended"
    /\ UNCHANGED <<inputs, listing, proc, sink, agent, wire, returned, abandoned, pos, issued, sent,
                   buffer, events, errMsg, sentinel, lineFrags, endParse>>

\* create() or the stream iteration throws: connection error
O3TransportError ==
    /\ handler = "o3" /\ net \in {"sent", "open"}
    /\ net = "sent" => SdkExhausted
    /\ outcome' = "error"
    /\ errMsg' = <<"Connection error.">>
    /\ net' = "failed"
    /\ UNCHANGED <<inputs, listing, proc, sink, agent, wire, returned, abandoned, pos, issued, sent,
                   buffer, events, sentinel, lineFrags, endParse>>

-----------------------------------------------------------------------------
(* "openai": OpenAiHandler.createMessage on its non-streaming path *)

\* response.choices[0]?.message.content || "" ; reading .content of a
\* missing message (or [0] of missing choices) throws a TypeError
OpenAiContent(d) ==
    IF d.message = Absent THEN [ok |-> FALSE, text |-> ""]
    ELSE [ok |-> TRUE, text |-> d.message]

\* a || b on optional numbers
OrNum(a, b) == IF a = Undef \/ a = 0 THEN b ELSE a

\* processUsageMetrics of OpenAiHandler; usage may be undefined
OpenAiUsage(usage) ==
    LET u == IF usage = <<>> THEN UsageOf(Undef, Undef) ELSE usage[1]
    IN  [type |-> "usage",
         inputTokens |-> OrNum(u.prompt_tokens, 0),
         outputTokens |-> OrNum(u.completion_tokens, 0),
         cacheWriteTokens |-> OrNum(u.cache_creation_input_tokens, Undef),
         cacheReadTokens |-> OrNum(u.cache_read_input_tokens, Undef)]

\* createMessage up to client.chat.completions.create (deepseekReasoner is
\* the constant true, so the messages are always in R1 format)
OpenAiSend ==
    /\ handler = "openai" /\ Built /\ net = "idle" /\ outcome = "pending"
    /\ sent' = convertToR1Format(R1Input(request.systemPrompt,
                                         request.messages[1]))
    /\ wire' = Wire(OpenAiModelId, OpenAiWireHeaders(openAiApiKey, apiKey),
                 OpenAiTransport, OpenAiBody(FALSE))
    /\ issued' = issued + 1
    /\ net' = "sent"
    /\ Logged(OpenAiAuthLog(Chars(openAiApiKey)),
              OpenAiAuthLog(OtherKey(Chars(openAiApiKey))))
    /\ UNCHANGED <<inputs, listing, proc, agent, returned, abandoned, pos, buffer,
                   events, outcome, errMsg, sentinel, lineFrags, endParse>>

\* create() settles with a complete response
OpenAiResponse ==
    /\ handler = "openai" /\ net = "sent"
    /\ SdkRetryable(status) => SdkExhausted
    /\ LET d == AxiosData(body)
           c == OpenAiContent(d)
       IN  IF ~(status >= 200 /\ status < 300)
           THEN /\ outcome' = "error"
                /\ errMsg' = <<"API error">>
                /\ UNCHANGED events
           ELSE IF ~c.ok
           THEN /\ outcome' = "error"
                /\ errMsg' = <<"TypeError">>
                /\ UNCHANGED events
           ELSE /\ events' = events \o <<TextEvent(c.text), OpenAiUsage(d.usage)>>
                /\ outcome' = "done"
                /\ UNCHANGED errMsg
    /\ pos' = Len(body)
    /\ net' = "ended"
    /\ UNCHANGED <<inputs, listing, proc, sink, agent, wire, returned, abandoned, issued, sent,
                   buffer, sentinel, lineFrags, endParse>>

\* create() throws without a response: connection error
OpenAiTransportError ==
    /\ handler = "openai" /\ net = "sent" /\ SdkExhausted
    /\ outcome' = "error"
    /\ errMsg' = <<"Connection error.">>
    /\ net' = "failed"
    /\ UNCHANGED <<inputs, listing, proc, sink, agent, wire, returned, abandoned, pos, issued, sent,
                   buffer, events, sentinel, lineFrags, endParse>>

-----------------------------------------------------------------------------
(* "complete": DeepSeekHandler.completePrompt of deepseek.ts *)

DeepseekPrefix == "Deepseek completion error: "

\* the catch block: an Error is rethrown with the prefix, any other thrown
\* value is rethrown as it is
CompleteCatch(prefix, isError, message) ==
    IF isError THEN <<prefix, message>> ELSE <<message>>

\* completePrompt up to axios.post; the key check is outside the try block
CompleteSend ==
    /\ handler = "complete" /\ Built /\ net = "idle" /\ outcome = "pending"
    /\ IF ~Truthy(apiKey)
       THEN /\ outcome' = "error"
            /\ errMsg' = <<"deepSeekApiKey is missing from ApiHandlerOptions">>
            /\ UNCHANGED <<net, issued, sent, wire>>
       ELSE /\ sent' = <<Msg("user", request.prompt)>>
            /\ wire' = Wire(getModelId(handler, apiModelId), BearerHeaders(apiKey),
                            AxiosTransport, PlainBody)
            /\ issued' = issued + 1
            /\ net' = "sent"
            /\ UNCHANGED <<outcome, errMsg>>
    /\ UNCHANGED <<inputs, listing, proc, sink, agent, returned, abandoned, pos, buffer,
                   events, sentinel, lineFrags, endParse>>

\* axios.post settles with a complete response
CompleteResponse ==
    /\ handler = "complete" /\ net = "sent"
    /\ IF status >= 200 /\ status < 300
       THEN /\ returned' = AxiosContent(AxiosData(body))
            /\ outcome' = "done"
            /\ UNCHANGED errMsg
       ELSE /\ outcome' = "error"
            /\ errMsg' = CompleteCatch(DeepseekPrefix, TRUE,
                                       "Request failed with status code")
            /\ UNCHANGED returned
    /\ pos' = Len(body)
    /\ net' = "ended"
    /\ UNCHANGED <<inputs, listing, proc, sink, agent, wire, abandoned, issued, sent,
                   buffer, events, sentinel, lineFrags, endParse>>

\* axios.post rejects without a response: with an AxiosError, or with
\* whatever value a request interceptor rejected with
CompleteTransportError ==
    /\ handler = "complete" /\ net = "sent"
    /\ outcome' = "error"
    /\ \E isError \in BOOLEAN :
          errMsg' = CompleteCatch(DeepseekPrefix, isError,
                                  IF isError THEN "network error"
                                  ELSE "rejected value")
    /\ net' = "failed"
    /\ UNCHANGED <<inputs, listing, proc, sink, agent, wire, returned, abandoned, pos, issued, sent,
                   buffer, events, sentinel, lineFrags, endParse>>

-----------------------------------------------------------------------------
(* "openaiComplete": OpenAiHandler.completePrompt *)

OpenAiPrefix == "OpenAI completion error: "

\* completePrompt up to client.chat.completions.create
OpenAiCompleteSend ==
    /\ handler = "openaiComplete" /\ Built /\ net = "idle"
    /\ outcome = "pending"
    /\ sent' = <<Msg("user", request.prompt)>>
    /\ wire' = Wire(OpenAiGetModelId(deepSeekBaseUrl, apiKey, caBundlePath,
                                     apiModelId),
                    OpenAiWireHeaders(openAiApiKey, apiKey), OpenAiTransport,
                    OpenAiBody(FALSE))
    /\ issued' = issued + 1
    /\ net' = "sent"
    /\ Logged(CallerAuthLog, CallerAuthLog)
    /\ UNCHANGED <<inputs, listing, proc, agent, returned, abandoned, pos, buffer,
                   events, outcome, errMsg, sentinel, lineFrags, endParse>>

\* create() settles with a complete response; everything is inside try
OpenAiCompleteResponse ==
    /\ handler = "openaiComplete" /\ net = "sent"
    /\ SdkRetryable(status) => SdkExhausted
    /\ LET c == OpenAiContent(AxiosData(body))
       IN  IF ~(status >= 200 /\ status < 300)
           THEN /\ outcome' = "error"
                /\ errMsg' = CompleteCatch(OpenAiPrefix, TRUE, "API error")
                /\ UNCHANGED returned
           ELSE IF ~c.ok
           THEN /\ outcome' = "error"
                /\ errMsg' = CompleteCatch(OpenAiPrefix, TRUE, "TypeError")
                /\ UNCHANGED returned
           ELSE /\ returned' = c.text
                /\ outcome' = "done"
                /\ UNCHANGED errMsg
    /\ pos' = Len(body)
    /\ net' = "ended"
    /\ UNCHANGED <<inputs, listing, proc, sink, agent, wire, abandoned, issued, sent,
                   buffer, events, sentinel, lineFrags, endParse>>

\* create() throws without a response
OpenAiCompleteTransportError ==
    /\ handler = "openaiComplete" /\ net = "sent" /\ SdkExhausted
    /\ outcome' = "error"
    /\ \E isError \in BOOLEAN :
          errMsg' = CompleteCatch(OpenAiPrefix, isError,
                                  IF isError THEN "Connection error."
                                  ELSE "rejected value")
    /\ net' = "failed"
    /\ UNCHANGED <<inputs, listing, proc, sink, agent, wire, returned, abandoned, pos, issued, sent,
                   buffer, events, sentinel, lineFrags, endParse>>

-----------------------------------------------------------------------------
(* The caller *)

\* the caller stops consuming the events of a callback / generator
\* createMessage whose request is under way.  Neither variant registers
\* anything that reacts to it (no abort signal, no finally, no destroy), and
\* the generator does not yield while it reads the body, so nothing else
\* changes.
Abandon ==
    /\ handler \in HttpsEntries /\ net \in {"sent", "open"}
    /\ outcome = "pending" /\ ~abandoned
    /\ abandoned' = TRUE
    /\ UNCHANGED <<inputs, listing, proc, sink, agent, wire, returned, pos, net, issued, sent,
                   buffer, events, outcome, errMsg, sentinel, lineFrags,
                   endParse>>

-----------------------------------------------------------------------------
(* getOpenAiModels *)

\* the pieces a baseUrl argument is made of
Spaces == {" ", "\t"}
Schemes == {"https:", "http:"}

\* String.prototype.trim
RECURSIVE trimStart(_)
trimStart(s) ==
    IF s # <<>> /\ Head(s) \in Spaces THEN trimStart(Tail(s)) ELSE s

RECURSIVE trimEnd(_)
trimEnd(s) ==
    IF s # <<>> /\ s[Len(s)] \in Spaces
    THEN trimEnd(SubSeq(s, 1, Len(s) - 1))
    ELSE s

trim(s) == trimEnd(trimStart(s))

\* URL.canParse without a base: an absolute URL, i.e. a scheme followed by
\* a host without whitespace
canParse(s) ==
    /\ Len(s) >= 2
    /\ s[1] \in Schemes
    /\ \A i \in 2..Len(s) : s[i] \notin Spaces \cup Schemes

\* !baseUrl
NoBaseUrl(url) == url = <<>> \/ url[1] = <<>>

\* the headers of the GET: DEFAULT_HEADERS, then openAiHeaders, then
\* Authorization from apiKey when that is truthy
ModelsHeaders(key) ==
    [ContentType |-> JsonType,
     Authorization |-> IF Truthy(key) THEN "Bearer " \o key
                       ELSE Nullish(openAiHeaders, DefaultAuthorization)]

\* response.data for each response text; a text that is not JSON stays a
\* string, which has no data property
NoData == [data |-> <<>>]
Model(id) == [isNull |-> FALSE, id |-> id]
NullModel == [isNull |-> TRUE, id |-> Absent]
ModelList(items) == [data |-> <<[isArray |-> TRUE, items |-> items]>>]

ModelsDecode(tok) ==
    CASE tok = "{data:[m1,m2,m1]}" ->
             ModelList(<<Model("m1"), Model("m2"), Model("m1")>>)
      [] tok = "{data:[m1]}" -> ModelList(<<Model("m1")>>)
      [] tok = "{data:[m2,m2]}" -> ModelList(<<Model("m2"), Model("m2")>>)
      [] tok = "{data:[]}" -> ModelList(<<>>)
      [] tok = "{data:[{},m1,{}]}" ->
             ModelList(<<Model(Absent), Model("m1"), Model(Absent)>>)
      [] tok = "{data:[null]}" -> ModelList(<<NullModel>>)
      [] tok = "{data:'text'}" -> [data |-> <<[isArray |-> FALSE, items |-> <<>>]>>]
      [] OTHER -> NoData

\* response.data?.data?.map((model) => model.id) || []: calling map on a
\* value that is not an array, or reading id of null, throws
modelsArray(data) ==
    IF data.data = <<>> THEN [threw |-> FALSE, ids |-> <<>>]
    ELSE LET d == data.data[1]
         IN  IF ~d.isArray \/ \E i \in 1..Len(d.items) : d.items[i].isNull
             THEN [threw |-> TRUE, ids |-> <<>>]
             ELSE [threw |-> FALSE,
                   ids |-> [i \in 1..Len(d.items) |-> d.items[i].id]]

\* a listing that keeps every id the endpoint sent
UniqueKeepAll(ids) == ids

\* [...new Set(ids)]: the first occurrence of each value, in order
Unique(ids) ==
    LET marked == [i \in 1..Len(ids) |->
                      [id |-> ids[i],
                       first |-> \A j \in 1..(i - 1) : ids[j] # ids[i]]]
        kept == SelectSeq(marked, LAMBDA e : e.first)
    IN  [i \in 1..Len(kept) |-> kept[i].id]

\* getOpenAiModels up to axios.get; every throw is caught and yields []
ModelsCall ==
    /\ handler = "models" /\ net = "idle" /\ outcome = "pending"
    /\ IF NoBaseUrl(listBaseUrl) \/ ~canParse(trim(listBaseUrl[1])) \/ ~sinkWorks
       THEN \* return [] (for a failing output channel: from the catch block)
            /\ models' = <<<<>>>>
            /\ outcome' = "done"
            /\ UNCHANGED <<fetch, issued, net, sink>>
       ELSE \E exists \in BOOLEAN :
            /\ fetch' = <<[url |-> trim(listBaseUrl[1]) \o <<"/models">>,
                           headers |-> ModelsHeaders(openAiApiKey),
                           trust |-> IF Truthy(caBundlePath) /\ exists
                                     THEN caBundlePath ELSE Absent]>>
            /\ issued' = issued + 1
            /\ net' = "sent"
            /\ Logged(OpenAiAuthLog(Chars(openAiApiKey)),
                      OpenAiAuthLog(OtherKey(Chars(openAiApiKey))))
            /\ UNCHANGED <<models, outcome>>
    /\ UNCHANGED <<inputs, proc, agent, pos, sent, wire, buffer, events, errMsg,
                   returned, abandoned, sentinel, lineFrags, endParse>>

\* axios.get settles with a response: it rejects for a status outside 2xx
ModelsResponse ==
    /\ handler = "models" /\ net = "sent"
    /\ LET r == modelsArray(ModelsDecode(body[1]))
       IN  models' = IF status >= 200 /\ status < 300 /\ ~r.threw
                     THEN <<Unique(r.ids)>>
                     ELSE <<<<>>>>
    /\ outcome' = "done"
    /\ net' = "ended"
    /\ UNCHANGED <<inputs, fetch, proc, sink, agent, pos, issued, sent, wire,
                   buffer, events, errMsg, returned, abandoned, sentinel,
                   lineFrags, endParse>>

\* axios.get rejects without a response
ModelsTransportError ==
    /\ handler = "models" /\ net = "sent"
    /\ models' = <<<<>>>>
    /\ outcome' = "done"
    /\ net' = "failed"
    /\ UNCHANGED <<inputs, fetch, proc, sink, agent, pos, issued, sent, wire,
                   buffer, events, errMsg, returned, abandoned, sentinel,
                   lineFrags, endParse>>

-----------------------------------------------------------------------------
(* Inputs *)

Handlers == HttpsEntries \cup AxiosEntries \cup OpenAiEntries

History3 == <<Msg("user", "a"), Msg("assistant", "b"), Msg("user", "c")>>
History2 == <<Msg("user", "a"), Msg("user", "b")>>

\* messages is <<>> when the request has no messages property and <<array>>
\* when it has one
Req(sp, sm, pr, ms) ==
    [systemPrompt |-> sp, systemMessage |-> sm, prompt |-> pr, messages |-> ms]

\* requests in the callback / generator style: createMessage(request)
ObjectRequests ==
    {Req("S", Absent, Absent, <<History3>>),
     Req(Absent, "S", Absent, <<History3>>),
     Req(Absent, "S", "P", <<>>),
     Req("S", Absent, "P", <<>>),
     Req("S", Absent, Absent, << <<Msg(Absent, "u")>> >>),
     Req(Absent, "S", Absent, <<>>)}

\* every history of up to n user / assistant turns; the k-th turn says "t<k>"
TurnText(k) == "t" \o ToString(k)

RECURSIVE Histories(_)
Histories(n) ==
    IF n = 0 THEN {<<>>}
    ELSE LET shorter == Histories(n - 1)
         IN  shorter \cup {Append(h, Msg(r, TurnText(Len(h) + 1))) :
                              h \in shorter, r \in {"user", "assistant"}}

\* requests in the positional style: createMessage(systemPrompt, messages)
PositionalRequests ==
    {Req(sp, Absent, Absent, <<h>>) :
        sp \in {"S", ""},
        h \in Histories(MaxHistory) \cup {History3, History2}}

\* completePrompt(prompt)
PromptRequests == {Req(Absent, Absent, "p", <<>>)}

RequestsOf(h) ==
    IF h \in HttpsEntries THEN ObjectRequests
    ELSE IF h \in {"complete", "openaiComplete"} THEN PromptRequests
    ELSE PositionalRequests

\* the request of the runs that explore the responses
PlainRequest(h) ==
    IF h \in {"complete", "openaiComplete"} THEN Req(Absent, Absent, "p", <<>>)
    ELSE Req("S", Absent, Absent, <<History3>>)

\* the lines of an event-stream body, without their newline
LineKinds ==
    {<<DataPrefix, "{delta:a}">>, <<DataPrefix, "{delta:b}">>,
     <<DataPrefix, DoneSentinel>>, <<DataPrefix, Garbage>>,
     <<DataPrefix, "{message:m,usage:5/2}">>, <<"{delta:b}">>, <<>>}

\* what may follow the last newline of a body
Tails ==
    {<<>>, <<DataPrefix, "{delta:a}">>, <<"{delta:b}">>,
     <<"{message:m,usage:5/2}">>, <<"{error:bad key}">>}

RECURSIVE LinesBodies(_)
LinesBodies(n) ==
    IF n = 0 THEN {<<>>}
    ELSE LET shorter == LinesBodies(n - 1)
         IN  shorter \cup {b \o l \o <<NL>> : b \in shorter, l \in LineKinds}

\* 'data: ' lines only: content frames and a payload that is not JSON
FrameKinds ==
    {<<DataPrefix, "{delta:a}">>, <<DataPrefix, "{delta:b}">>,
     <<DataPrefix, Garbage>>}

\* streams of up to n newline-terminated 'data: ' lines
RECURSIVE FrameBodies(_)
FrameBodies(n) ==
    IF n = 0 THEN {<<>>}
    ELSE LET shorter == FrameBodies(n - 1)
         IN  shorter \cup {b \o l \o <<NL>> : b \in shorter, l \in FrameKinds}

SseBodies ==
    {b \o t : b \in LinesBodies(MaxLines), t \in Tails}
    \cup FrameBodies(MaxLines + 1)

\* whole-document bodies, with and without a final newline
DocBodies ==
    {<<t>> : t \in DocTokens \cup {Garbage}}
    \cup {<<t, NL>> : t \in {"{message:m,usage:5/2}", "{error:bad key}"}}
    \cup {<<>>, <<DataPrefix, "{delta:a}", NL>>}

\* the SDK chunks of a stream
ChunkKinds ==
    {"{delta:a}", "{delta:b}", "{delta:a,usage:5/2}", "{usage:7/3}", "{}"}

RECURSIVE ChunkSeqs(_)
ChunkSeqs(n) ==
    IF n = 0 THEN {<<>>}
    ELSE LET shorter == ChunkSeqs(n - 1)
         IN  shorter \cup {Append(b, c) : b \in shorter, c \in ChunkKinds}

BodiesOf(h) ==
    CASE h = "sse" -> SseBodies
      [] h = "o3" -> ChunkSeqs(MaxChunks)
      [] OTHER -> DocBodies

\* the response of the runs that explore the requests and the options
ProbeBody(h) ==
    CASE h = "sse" -> <<DataPrefix, "{delta:a}", NL>>
      [] h = "o3" -> <<"{delta:a}">>
      [] OTHER -> <<"{message:m,usage:5/2}">>

Statuses == {200, 500}

ApiKeys == {"sk-key", Absent}
OpenAiKeysOf(h) == IF h \in OpenAiEntries THEN {"sk-open", Absent} ELSE {Absent}
CaPaths == {"ca.pem", Absent}
ModelIds == {"deepseek-reasoner", "deepseek-r1-0528", "constructor", Absent}
BaseUrls == {"https://gateway.local/v1", "http://gateway.local/v1", Absent}
Timeouts == {5000, Undef}
MaxTokens == {4096, Undef}

\* the responses of the runs whose output channel fails, for the variants
\* whose createMessage writes to an output channel it was given
SinkBodies(h) ==
    IF h \in {"doc", "axios"}
    THEN {<<"{message:m,usage:5/2}">>, <<"{error:bad key}">>, <<Garbage>>}
    ELSE {}
OpenAiHeadersOf(h) ==
    IF h \in OpenAiEntries THEN {"Bearer caller-token", Absent} ELSE {Absent}

-----------------------------------------------------------------------------
(* The state machine *)

\* Building the request and handling the response do not read each other's
\* data, so a run explores either the responses (with a plain request and
\* plain options), or the requests, or the options (with a plain response),
\* or a failing output channel.
Init ==
    /\ handler \in Handlers
    /\ apiKey \in ApiKeys
    /\ status \in Statuses
    /\ \/ /\ body \in BodiesOf(handler)
          /\ request = PlainRequest(handler)
          /\ openAiApiKey = Absent
          /\ caBundlePath = Absent
          /\ apiModelId = Absent
          /\ deepSeekBaseUrl = Absent
          /\ requestTimeoutMs = Undef
          /\ openAiHeaders = Absent
          /\ includeMaxTokens = FALSE
          /\ modelMaxTokens = Undef
          /\ sinkWorks = TRUE
          /\ peer = "none"
       \/ /\ body = ProbeBody(handler)
          /\ request \in RequestsOf(handler)
          /\ openAiApiKey \in OpenAiKeysOf(handler)
          /\ caBundlePath \in CaPaths
          /\ apiModelId \in ModelIds
          /\ deepSeekBaseUrl = Absent
          /\ requestTimeoutMs = Undef
          /\ openAiHeaders = Absent
          /\ includeMaxTokens = FALSE
          /\ modelMaxTokens = Undef
          /\ sinkWorks = TRUE
          /\ peer = "none"
       \/ /\ body = ProbeBody(handler)
          /\ request = PlainRequest(handler)
          /\ openAiApiKey \in OpenAiKeysOf(handler)
          /\ caBundlePath \in CaPaths
          /\ apiModelId = Absent
          /\ deepSeekBaseUrl \in BaseUrls
          /\ requestTimeoutMs \in Timeouts
          /\ openAiHeaders \in OpenAiHeadersOf(handler)
          /\ includeMaxTokens \in BOOLEAN
          /\ modelMaxTokens \in MaxTokens
          /\ sinkWorks = TRUE
          /\ peer \in {"none", "pending"}
       \/ /\ body \in SinkBodies(handler)
          /\ request = PlainRequest(handler)
          /\ openAiApiKey = Absent
          /\ caBundlePath = Absent
          /\ apiModelId = Absent
          /\ deepSeekBaseUrl = Absent
          /\ requestTimeoutMs = Undef
          /\ openAiHeaders = Absent
          /\ includeMaxTokens = FALSE
          /\ modelMaxTokens = Undef
          /\ sinkWorks = FALSE
          /\ peer = "none"
    /\ env = [NODE_EXTRA_CA_CERTS |-> Absent, REQUESTS_CA_BUNDLE |-> Absent]
    /\ agent = "unbuilt"
    /\ wire = <<>>
    /\ returned = Absent
    /\ abandoned = FALSE
    /\ pos = 0
    /\ net = "idle"
    /\ issued = 0
    /\ sent = <<>>
    /\ buffer = <<>>
    /\ events = <<>>
    /\ outcome = "pending"
    /\ errMsg = <<>>
    /\ sentinel = FALSE
    /\ lineFrags = 0
    /\ endParse = FALSE
    /\ diag = <<>>
    /\ diagAlt = <<>>
    /\ listBaseUrl = <<>>
    /\ fetch = <<>>
    /\ models = <<>>

Next ==
    \/ HttpsConstruct \/ AxiosConstruct \/ OpenAiConstruct \/ PeerConstruct \/ SdkRetry
    \/ SseSend \/ SseResponse \/ SseData \/ SseEnd \/ SseReqError
    \/ SseResAborted
    \/ DocSend \/ DocResponse \/ DocChunk \/ DocEnd \/ DocTransportError
    \/ AxiosSend \/ AxiosResponse \/ AxiosTransportError
    \/ O3Send \/ O3Response \/ O3Chunk \/ O3End \/ O3TransportError
    \/ OpenAiSend \/ OpenAiResponse \/ OpenAiTransportError
    \/ CompleteSend \/ CompleteResponse \/ CompleteTransportError
    \/ OpenAiCompleteSend \/ OpenAiCompleteResponse
    \/ OpenAiCompleteTransportError
    \/ Abandon

Spec == Init /\ [][Next]_vars

\* the arguments and endpoint behaviours of a getOpenAiModels call
Url == "//gateway.local/v1"
ModelsBaseUrls ==
    {<<>>, <<<<>>>>, <<<<" ">>>>, <<<<"gateway.local/v1">>>>,
     <<<<"https:", Url>>>>, <<<<"http:", Url>>>>,
     <<<<" ", "https:", Url, "\t", " ">>>>, <<<<"https:", " ", Url>>>>}
ModelsBodies ==
    {<<t>> : t \in {"{data:[m1,m2,m1]}", "{data:[m1]}", "{data:[m2,m2]}",
                    "{data:[]}", "{data:[{},m1,{}]}", "{data:[null]}",
                    "{data:'text'}", "{}", Garbage}}

InitModels ==
    /\ handler = "models"
    /\ listBaseUrl \in ModelsBaseUrls
    /\ openAiApiKey \in {"sk-open", Absent}
    /\ openAiHeaders \in {"Bearer caller-token", Absent}
    /\ caBundlePath \in CaPaths
    /\ sinkWorks \in BOOLEAN
    /\ status \in Statuses
    /\ body \in ModelsBodies
    /\ apiKey = Absent
    /\ apiModelId = Absent
    /\ request = PlainRequest(handler)
    /\ deepSeekBaseUrl = Absent
    /\ requestTimeoutMs = Undef
    /\ includeMaxTokens = FALSE
    /\ modelMaxTokens = Undef
    /\ peer = "none"
    /\ env = [NODE_EXTRA_CA_CERTS |-> Absent, REQUESTS_CA_BUNDLE |-> Absent]
    /\ agent = "unbuilt"
    /\ wire = <<>>
    /\ returned = Absent
    /\ abandoned = FALSE
    /\ pos = 0
    /\ net = "idle"
    /\ issued = 0
    /\ sent = <<>>
    /\ buffer = <<>>
    /\ events = <<>>
    /\ outcome = "pending"
    /\ errMsg = <<>>
    /\ sentinel = FALSE
    /\ lineFrags = 0
    /\ endParse = FALSE
    /\ diag = <<>>
    /\ diagAlt = <<>>
    /\ fetch = <<>>
    /\ models = <<>>

NextModels == ModelsCall \/ ModelsResponse \/ ModelsTransportError

SpecModels == InitModels /\ [][NextModels]_vars

-----------------------------------------------------------------------------
(* Vocabulary of the properties *)

IsContent(e) == e.type \in {"content", "text"}
IsUsage(e) == e.type = "usage"
ContentOf(e) == IF e.type = "content" THEN e.content ELSE e.text

NoContentEvent == \A i \in 1..Len(events) : ~IsContent(events[i])
SomeNonEmptyContent ==
    \E i \in 1..Len(events) : IsContent(events[i]) /\ ContentOf(events[i]) # ""

Is2xx == status >= 200 /\ status < 300

\* what the event-stream handler reports when the whole body arrives as one
\* 'data' chunk followed by 'end'
OneChunkEvents(b) ==
    LET r == SseOnData(<<>>, b)
    IN  r.out \o SseOnEnd(r.buffer).out

\* C1: chunk-boundary invariance of the event-stream createMessage.  However
\* the body is cut into 'data' chunks, the content reported through
\* onProgress by the end of the stream is what the single-chunk delivery of
\* the same body reports (so any two ways of chunking agree).
C1_ChunkBoundaryInvariance ==
    (handler = "sse" /\ net = "ended") => events = OneChunkEvents(body)

\* C2: sentinel precedence.  Once a 'data: [DONE]' line has been processed,
\* no later step (a later chunk, or the end-of-stream parse of the residue)
\* delivers a further event to the caller.
C2_SentinelPrecedence == [][sentinel => events' = events]_vars

\* C3: exactly one terminal condition.  When the transport is finished with
\* the request (the response ended, the request failed, or the connection
\* was cut after the response started) the call has ended, in Done or in an
\* error.
C3_ExactlyOneTerminal ==
    net \in {"ended", "failed", "aborted"} => outcome \in {"done", "error"}

\* C4: no content is an error.  A call that completes normally has delivered
\* at least one content event with non-empty text.
C4_NoContentIsError ==
    (net = "ended" /\ outcome = "done") => SomeNonEmptyContent

\* C5: explicit error object.  A 2xx response whose body is one JSON
\* document with an error.message makes the whole-document handlers end in
\* an error that carries the provider's message, without any content event.
C5_ErrorObject ==
    (/\ handler \in {"doc", "axios"}
     /\ net = "ended" /\ Is2xx
     /\ JsonParse(body).ok /\ JsonParse(body).doc.error # Absent)
    => /\ outcome = "error"
       /\ \E i \in 1..Len(errMsg) : errMsg[i] = JsonParse(body).doc.error
       /\ NoContentEvent

\* C6: non-2xx status.  A response with a status code outside 200..299 ends
\* the call in an error and delivers no content event, whatever its body.
C6_Non2xxIsError ==
    (net = "ended" /\ ~Is2xx) => (outcome = "error" /\ NoContentEvent)

\* C7: event ordering.  No usage event precedes a content event, and at most
\* one usage event is emitted per request.
C7_EventOrdering ==
    /\ \A i, j \in 1..Len(events) :
          (i < j /\ IsUsage(events[i])) => ~IsContent(events[j])
    /\ Cardinality({i \in 1..Len(events) : IsUsage(events[i])}) <= 1

\* a well-formed event stream: every line is a newline-terminated 'data: '
\* frame and at least one frame carries delta content
WellFormedSse(b) ==
    /\ Len(b) > 0 /\ b[Len(b)] = NL
    /\ \A i \in 1..Len(b) : (i = 1 \/ b[i - 1] = NL) => b[i] = DataPrefix
    /\ \E i \in 2..Len(b) :
          b[i - 1] = DataPrefix /\ DeltaProgress(<<b[i]>>) # <<>>

\* C8: fallback guard.  The end-of-stream parse of the event-stream handler
\* is attempted only when line-wise parsing produced no content fragment,
\* and for a well-formed event stream it is never attempted.
C8_FallbackGuard ==
    handler = "sse" =>
        /\ endParse => lineFrags = 0
        /\ (net = "ended" /\ WellFormedSse(body)) => ~endParse

\* C9: whole-document recovery.  For a 2xx body that is the single document
\* {choices[0].message.content: "m", usage: {prompt_tokens: 5,
\* completion_tokens: 2}} the call delivers exactly Content("m"), then
\* Usage{inputTokens: 5, outputTokens: 2}, and completes normally.
C9_WholeDocumentRecovery ==
    (/\ handler \in {"sse", "doc", "axios"}
     /\ body = <<"{message:m,usage:5/2}">>
     /\ Is2xx /\ net = "ended")
    => /\ outcome = "done"
       /\ Len(events) = 2
       /\ IsContent(events[1]) /\ ContentOf(events[1]) = "m"
       /\ IsUsage(events[2])
       /\ events[2].inputTokens = 5 /\ events[2].outputTokens = 2

\* the system text of a request, under either of its two keys
SystemText(req) ==
    IF req.systemMessage # Absent THEN req.systemMessage ELSE req.systemPrompt

\* C10: plain-mode formatting.  For a request with a system message S and a
\* non-empty history, the messages sent are {role: system, content: S}
\* followed by the history turns, unchanged and in order.
C10_PlainFormat ==
    (/\ handler \in {"sse", "doc"} /\ issued > 0
     /\ SystemText(request) # Absent
     /\ request.messages # <<>> /\ request.messages[1] # <<>>)
    => sent = <<Msg("system", SystemText(request))>> \o request.messages[1]

\* a request without history: no messages property, or an empty array
NoHistory(req) == req.messages = <<>> \/ req.messages[1] = <<>>

\* C11: prompt fallback.  For a request with a system message S, no history
\* messages and a prompt P, the messages sent are exactly
\* {role: system, content: S} followed by {role: user, content: P}.
C11_PromptFallback ==
    (/\ handler \in HttpsEntries /\ issued > 0
     /\ SystemText(request) # Absent /\ request.prompt # Absent
     /\ NoHistory(request))
    => sent = <<Msg("system", SystemText(request)), Msg("user", request.prompt)>>

\* the history as the backward-compatible format emits it: a message
\* without a role gets role user
WithDefaultRole(ms) ==
    [i \in 1..Len(ms) |->
        Msg(IF ms[i].role = Absent THEN "user" ELSE ms[i].role, ms[i].content)]

\* C12: backward-compatible formatting.  When the system text is under the
\* legacy key systemPrompt (and there is no systemMessage) the messages sent
\* start with {role: system, content: systemPrompt}, and a history message
\* that has content but no role is sent with role user.
C12_BackwardCompatible ==
    (/\ handler \in HttpsEntries /\ issued > 0
     /\ request.systemPrompt # Absent /\ request.systemMessage = Absent
     /\ request.messages # <<>>)
    => sent = <<Msg("system", request.systemPrompt)>>
              \o WithDefaultRole(request.messages[1])

\* the request supplies neither a user message nor a prompt
NoUserContent(req) ==
    /\ req.prompt = Absent
    /\ \/ NoHistory(req)
       \/ \A i \in 1..Len(req.messages[1]) : req.messages[1][i].role # "user"

\* C13: fail fast on an empty conversation.  When the request supplies
\* neither a user message nor a prompt (and an API key is configured), no
\* network request is issued and the call ends with the error
\* 'No user messages or prompt provided'.
C13_FailFast ==
    (handler \in {"doc", "axios"} /\ Truthy(apiKey) /\ NoUserContent(request))
    => /\ issued = 0
       /\ outcome # "pending" =>
             (outcome = "error"
              /\ errMsg = <<"No user messages or prompt provided">>)

\* the contents of a message list joined by newlines
RECURSIVE JoinContents(_)
JoinContents(ms) ==
    IF ms = <<>> THEN ""
    ELSE IF Len(ms) = 1 THEN ms[1].content
    ELSE ms[1].content \o "\n" \o JoinContents(Tail(ms))

\* the turns of a positional request: the system prompt, then the history
Turns(req) == <<Msg("user", req.systemPrompt)>> \o req.messages[1]

\* the number of maximal runs of consecutive same-role turns
Runs(ms) ==
    Cardinality({i \in 1..Len(ms) : i = 1 \/ ms[i].role # ms[i - 1].role})

ConfiguredKey ==
    IF handler \in OpenAiEntries
    THEN IF Truthy(openAiApiKey) /\ ~Truthy(apiKey) THEN openAiApiKey
         ELSE IF Truthy(apiKey) /\ ~Truthy(openAiApiKey) THEN apiKey
         ELSE Absent
    ELSE apiKey

\* C15: wire credentials.  Every request issued by a handler that has an API
\* key configured, as openAiApiKey or as deepSeekApiKey, carries the
\* Authorization header 'Bearer <that key>' and Content-Type
\* application/json.
C15_WireCredentials ==
    (issued > 0 /\ Truthy(ConfiguredKey))
    => /\ wire[1].headers.Authorization = "Bearer " \o ConfiguredKey
       /\ wire[1].headers.ContentType = JsonType

\* C16: completePrompt failure shape.  Every failure of completePrompt
\* (missing API key, transport failure, non-2xx status, a thrown non-Error
\* value) reaches the caller as an error whose message begins with the
\* provider-naming prefix.
C16_CompletePromptFailureShape ==
    (handler \in {"complete", "openaiComplete"} /\ outcome = "error")
    => /\ Len(errMsg) >= 1
       /\ errMsg[1] = IF handler = "complete" THEN DeepseekPrefix
                      ELSE OpenAiPrefix

\* the texts of the content events of a sequence of events, concatenated
RECURSIVE ConcatContent(_)
ConcatContent(evs) ==
    IF evs = <<>> THEN ""
    ELSE (IF IsContent(evs[1]) THEN ContentOf(evs[1]) ELSE "")
         \o ConcatContent(Tail(evs))

\* the response is one the no-content or the error-object case covers
NoContentOrErrorObject(b) ==
    \/ JsonParse(b).doc.error # Absent
    \/ ConcatContent(AxiosYield(AxiosData(b))) = ""

\* C17: completePrompt agrees with createMessage.  For a complete response,
\* completePrompt throws when createMessage ends in an error for the same
\* response, and also in the no-content and the error-object case; otherwise
\* it returns the concatenation of the content texts createMessage emits.
C17_CompletePromptAgrees ==
    (handler = "complete" /\ net = "ended")
    => LET r == AxiosRun(status, body)
       IN  IF r.outcome = "error" \/ NoContentOrErrorObject(body)
           THEN outcome = "error"
           ELSE outcome = "done" /\ returned = ConcatContent(r.out)

\* C18: getModel is total.  For any configured model id, and for none,
\* DeepSeekHandler.getModel returns an id and a defined info record: the
\* table entry of the id when the table has it, the default fallback entry
\* otherwise.
C18_GetModelTotal ==
    (handler \in HttpsEntries \cup AxiosEntries /\ issued > 0)
    => LET m == getModel(handler, apiModelId)
       IN  /\ m.id # Absent
           /\ IF m.id \in deepSeekModels
              THEN m.info = TableEntry(m.id)
              ELSE m.info \in {TableEntry(deepSeekDefaultModelId), SaneDefaults}

\* C19: the CA bundle is optional.  With no CA bundle path configured the
\* constructor succeeds whatever the filesystem holds, and the handler's
\* requests are sent with no custom trust anchor.
C19_CaBundleOptional ==
    caBundlePath = Absent
    => /\ agent # "threw"
       /\ issued > 0 => agent = "none"

\* C20: cancellation.  Once the caller has abandoned the event sequence the
\* connection is no longer open, no further piece of the response is read
\* and no further event is delivered.
C20_Cancellation ==
    [][/\ abandoned' => net' \notin {"sent", "open"}
       /\ abandoned => (pos' = pos /\ events' = events)]_vars

-----------------------------------------------------------------------------
(* Timeout, retries, shared trust configuration *)

\* C21: the timeout of every request issued by createMessage and
\* completePrompt of deepseek.ts is the requestTimeoutMs the caller
\* configured, and 120000 ms when none is configured
C21_TimeoutSelection ==
    (handler \in AxiosEntries /\ issued > 0) =>
        wire[1].timeout = NullishNum(requestTimeoutMs, 120000)

\* C22: a createMessage or completePrompt call writes at most one HTTP
\* request to the endpoint, whatever its outcome
C22_OneRequest == issued <= 1

\* the trust anchor the handler's own constructor configured
OwnTrust ==
    IF handler \in AxiosEntries THEN AxiosCaBundlePath(caBundlePath)
    ELSE AgentCa

\* C23: the trust anchor in effect for a TLS request is the one its own
\* handler was constructed with, whatever other handlers the process
\* constructs before the request
C23_NoSharedTrust ==
    (/\ handler \in HttpsEntries \cup AxiosEntries
     /\ issued > 0
     /\ wire[1].protocol = "https:") =>
        wire[1].trust = OwnTrust

-----------------------------------------------------------------------------
(* The line protocol of the event-stream variant *)

\* the newline-terminated lines of a response text, in order
RECURSIVE LinesOf(_)
LinesOf(b) ==
    IF ~HasNewline(b) THEN <<>>
    ELSE <<SubSeq(b, 1, IndexOfNewline(b) - 1)>>
         \o LinesOf(SubSeq(b, IndexOfNewline(b) + 1, Len(b)))

IsDoneLine(line) == line = <<DataPrefix, DoneSentinel>>

\* the lines before the first 'data: [DONE]' line
RECURSIVE BeforeDone(_)
BeforeDone(lines) ==
    IF lines = <<>> \/ IsDoneLine(Head(lines)) THEN <<>>
    ELSE <<Head(lines)>> \o BeforeDone(Tail(lines))

\* a 'data: ' line whose payload is a document with non-empty delta content
IsContentFrame(line) ==
    /\ Len(line) > 0 /\ line[1] = DataPrefix
    /\ JsonParse(Tail(line)).ok
    /\ Truthy(JsonParse(Tail(line)).doc.delta)

\* the content events of the content frames among lines, in order
RECURSIVE FrameEvents(_)
FrameEvents(lines) ==
    IF lines = <<>> THEN <<>>
    ELSE (IF IsContentFrame(Head(lines))
          THEN <<ContentEvent(JsonParse(Tail(Head(lines))).doc.delta)>>
          ELSE <<>>) \o FrameEvents(Tail(lines))

IsPrefixOf(a, b) == Len(a) <= Len(b) /\ SubSeq(b, 1, Len(a)) = a

\* C24: when the stream has ended, the call of the event-stream variant has
\* not failed, and every content frame among the complete lines before the
\* first [DONE] line has produced its content event, in order, whether or
\* not malformed 'data: ' lines stand between them
C24_MalformedFramesDropped ==
    (handler = "sse" /\ net = "ended") =>
        /\ outcome = "done"
        /\ IsPrefixOf(FrameEvents(BeforeDone(LinesOf(body))), events)

\* C24 witness: a stream with a content frame, a malformed frame and another
\* content frame has ended, and both contents were delivered
C24_Witness ==
    /\ handler = "sse" /\ net = "ended" /\ outcome = "done"
    /\ body = <<DataPrefix, "{delta:a}", NL, DataPrefix, Garbage, NL,
                DataPrefix, "{delta:b}", NL>>
    /\ events = <<ContentEvent("a"), ContentEvent("b")>>

-----------------------------------------------------------------------------
(* Content extraction and usage normalization *)

\* the first non-empty value among delta content, message content and text
PriorityContent(d) ==
    IF Truthy(d.delta) THEN d.delta
    ELSE IF Truthy(d.message) THEN d.message
    ELSE IF Truthy(d.text) THEN d.text
    ELSE ""

\* the texts of the content events among evs, in order
RECURSIVE ContentTexts(_)
ContentTexts(evs) ==
    IF evs = <<>> THEN <<>>
    ELSE (IF IsContent(Head(evs)) THEN <<ContentOf(Head(evs))>> ELSE <<>>)
         \o ContentTexts(Tail(evs))

\* C25: from a 2xx response whose body is one JSON document the whole-body
\* variants deliver exactly the first non-empty value among delta content,
\* message content and text, and no content fragment when there is none
C25_ExtractionPriority ==
    (/\ handler \in {"doc", "axios"}
     /\ net = "ended" /\ Is2xx /\ JsonParse(body).ok) =>
        ContentTexts(events) =
            (IF PriorityContent(JsonParse(body).doc) = "" THEN <<>>
             ELSE <<PriorityContent(JsonParse(body).doc)>>)

\* the usage object of the response document, read under either spelling
NormalInput(u) == NullishNum(u.prompt_tokens, NullishNum(u.input_tokens, 0))
NormalOutput(u) ==
    NullishNum(u.completion_tokens, NullishNum(u.output_tokens, 0))

\* C26: the usage event of a completed call carries the input and output
\* token counts of the response's usage object whichever spelling it uses
\* (prompt_tokens / input_tokens, completion_tokens / output_tokens)
C26_UsageNormalization ==
    (/\ handler \in {"axios", "openai"}
     /\ net = "ended" /\ outcome = "done"
     /\ JsonParse(body).doc.usage # <<>>) =>
        \E i \in 1..Len(events) :
            /\ IsUsage(events[i])
            /\ events[i].inputTokens = NormalInput(JsonParse(body).doc.usage[1])
            /\ events[i].outputTokens = NormalOutput(JsonParse(body).doc.usage[1])

\* the text after the last newline of a response text
Residue(b) ==
    IF ~HasNewline(b) THEN b
    ELSE LET last == CHOOSE i \in 1..Len(b) :
                        b[i] = NL /\ \A j \in (i + 1)..Len(b) : b[j] # NL
         IN  SubSeq(b, last + 1, Len(b))

\* C27: when the response ends with a content frame that no newline
\* terminates (and no [DONE] line came before), the streaming createMessage
\* has delivered that frame's content as its last event when it completes
C27_TrailingFrameDrained ==
    (/\ handler = "sse" /\ net = "ended"
     /\ IsContentFrame(Residue(body))
     /\ BeforeDone(LinesOf(body)) = LinesOf(body)) =>
        /\ events # <<>>
        /\ events[Len(events)] =
               ContentEvent(JsonParse(Tail(Residue(body))).doc.delta)

\* C28: for a stream of newline-terminated lines without a [DONE] line, the
\* content events the streaming createMessage has delivered when it
\* completes are, in order, the delta contents of the 'data: ' lines that
\* decode to a document with non-empty delta content; other lines add
\* nothing and the call does not fail
C28_FrameToEvent ==
    (/\ handler = "sse" /\ net = "ended"
     /\ Residue(body) = <<>>
     /\ BeforeDone(LinesOf(body)) = LinesOf(body)) =>
        /\ outcome = "done"
        /\ events = FrameEvents(LinesOf(body))

\* C28 witness: a stream of a line without the prefix and a content frame
\* has completed with the frame's content as its only event
C28_Witness ==
    /\ handler = "sse" /\ net = "ended" /\ outcome = "done"
    /\ body = <<"{delta:b}", NL, DataPrefix, "{delta:a}", NL>>
    /\ events = <<ContentEvent("a")>>

\* C29: after the streaming createMessage has handled a 'data' chunk its
\* accumulation buffer contains no newline
C29_BufferHasNoNewline == handler = "sse" => ~HasNewline(buffer)

-----------------------------------------------------------------------------
(* Transport selection *)


\* C30: a call that reaches its request sends it with the transport of the
\* endpoint URL's scheme (http: plain, https: TLS), and a request to an
\* http endpoint carries no trust configuration
C30_ProtocolFollowsScheme ==
    (handler \in HttpsEntries \cup AxiosEntries) =>
        /\ errMsg # <<"ERR_INVALID_PROTOCOL">>
        /\ issued > 0 =>
              /\ wire[1].protocol =
                     UrlProtocol(Endpoint(handler, deepSeekBaseUrl))
              /\ wire[1].protocol = "http:" => wire[1].trust = Absent

-----------------------------------------------------------------------------
(* Header assembly, forwarding, request body *)

\* C31: when the caller supplies an Authorization header through
\* openAiHeaders, the request of an OpenAiHandler call carries exactly that
\* value, whatever API keys are configured
C31_ExplicitAuthorizationWins ==
    (handler \in OpenAiEntries /\ issued > 0 /\ openAiHeaders # Absent) =>
        wire[1].headers.Authorization = openAiHeaders

\* the content events of the frames that are complete in the received text:
\* for the event-stream variant the content frames among its complete lines
\* before [DONE], for the whole-body variant the content of a text that
\* already is one JSON document
CompleteFrameEvents(h, received) ==
    IF h = "sse" THEN FrameEvents(BeforeDone(LinesOf(received)))
    ELSE IF JsonParse(received).ok THEN DocParse(received).out
    ELSE <<>>

\* C32: whenever a further chunk is read from the transport, the content of
\* every frame that was complete in the chunks read before has already been
\* delivered to the caller
C32_IncrementalForwarding ==
    [][(handler \in HttpsEntries /\ pos > 0 /\ pos' > pos) =>
           IsPrefixOf(CompleteFrameEvents(handler, SubSeq(body, 1, pos)),
                      events)]_vars

\* C33: the body of every request of deepseek.ts and of OpenAiHandler
\* contains max_completion_tokens exactly when includeMaxTokens is true, and
\* then with the configured maximum, or the model's default when none is set
C33_MaxTokensKnob ==
    (handler \in AxiosEntries \cup OpenAiEntries /\ issued > 0) =>
        wire[1].max_completion_tokens =
            (IF includeMaxTokens
             THEN NullishNum(modelMaxTokens, ModelDefaultMaxTokens)
             ELSE Undef)

\* C34: every createMessage request of deepseek.ts and of OpenAiHandler is
\* non-streaming and carries the system prompt as a leading user-role turn;
\* no message has the system or the developer role
C34_NeverStream ==
    (handler \in {"axios", "o3", "openai"} /\ issued > 0) =>
        /\ ~wire[1].stream
        /\ sent # <<>> /\ sent[1].role = "user"
        /\ \A i \in 1..Len(sent) : sent[i].role \notin {"system", "developer"}

-----------------------------------------------------------------------------
(* The diagnostics sink *)

\* C35: a createMessage call of part_000 or deepseek.ts whose output
\* channel fails never ends with the channel's error: it reaches its
\* request when a key is configured, and a completed exchange ends as it
\* does with a working channel
C35_DiagnosticsNeverAffect ==
    (handler \in {"doc", "axios"}) =>
        /\ errMsg # SinkError
        /\ (Truthy(apiKey) /\ outcome # "pending") => issued = 1
        /\ (handler = "doc" /\ net = "ended") =>
               /\ outcome = DocParse(buffer).outcome
               /\ events = DocParse(buffer).out
        /\ (handler = "axios" /\ net = "ended") =>
               /\ outcome = AxiosRun(status, body).outcome
               /\ events = AxiosRun(status, body).out

\* C36: with no API key configured, a call of the DeepSeekHandler variants
\* issues no HTTP request, delivers no event and returns nothing; once it
\* has run it has failed
C36_MissingCredentialFailsFirst ==
    (handler \in HttpsEntries \cup AxiosEntries /\ ~Truthy(apiKey)) =>
        /\ issued = 0 /\ net = "idle"
        /\ events = <<>> /\ returned = Absent
        /\ outcome \in {"pending", "error"}

\* C36 witness: a call without a key has failed with nothing sent
C36_Witness ==
    /\ handler \in HttpsEntries \cup AxiosEntries
    /\ ~Truthy(apiKey) /\ Built
    /\ outcome = "error" /\ issued = 0 /\ events = <<>>

\* C37: the API key does not leak into diagnostics: what the handler has
\* written to the diagnostics sink during construction and createMessage is
\* the same text whichever API key it was configured with
C37_KeyNotInDiagnostics == diag = diagAlt

-----------------------------------------------------------------------------
(* Model id *)

\* the id getModel() returns for the handler of this run
GetModelId ==
    IF handler \in OpenAiEntries
    THEN IF Truthy(deepSeekBaseUrl) \/ Truthy(apiKey) \/ Truthy(caBundlePath)
         THEN OpenAiGetModelId(deepSeekBaseUrl, apiKey, caBundlePath,
                               apiModelId)
         ELSE IF handler = "o3" THEN O3ModelId ELSE OpenAiModelId
    ELSE getModelId(handler, apiModelId)

\* C38: model id consistency: the model id placed in the body of a
\* createMessage or completePrompt request equals the id getModel() returns
\* for the same handler
C38_ModelIdConsistency ==
    wire # <<>> => wire[1].model = GetModelId

-----------------------------------------------------------------------------
(* getOpenAiModels *)

NoDuplicates(list) ==
    \A i, j \in 1..Len(list) : i # j => list[i] # list[j]

\* the baseUrl argument is missing or, trimmed, not a parseable URL
UnusableBaseUrl == NoBaseUrl(listBaseUrl) \/ ~canParse(trim(listBaseUrl[1]))

\* C39: getOpenAiModels is total: whatever its arguments and the endpoint's
\* behaviour, it never throws and, once settled, has returned a list; the
\* list has no duplicate model ids; and for a baseUrl that is missing or,
\* after trimming whitespace, not a parseable URL, the list is empty and no
\* HTTP request is issued
C39_GetOpenAiModelsTotal ==
    handler = "models" =>
        /\ outcome # "error"
        /\ net \in {"ended", "failed"} => outcome = "done"
        /\ outcome = "done" => models # <<>>
        /\ models # <<>> => NoDuplicates(models[1])
        /\ UnusableBaseUrl =>
               /\ issued = 0 /\ fetch = <<>>
               /\ models # <<>> => models[1] = <<>>

\* C39: the endpoint answered with a list that names a model twice, and the
\* call returned each id once
C39_Witness ==
    /\ handler = "models" /\ outcome = "done"
    /\ body = <<"{data:[m1,m2,m1]}">>
    /\ models = <<<<"m1", "m2">>>>
    /\ listBaseUrl = <<<<" ", "https:", Url, "\t", " ">>>>
    /\ fetch[1].url = <<"https:", Url, "/models">>

=============================================================================
